---- MODULE Spec2Model ----
(***************************************************************************)
(* A model of randomized_flyover_generator.py: the command-line dispatch   *)
(* of main, parse_polygon_from_kml, the two sampling loops and the timing  *)
(* loop of generate_random_kml, and haversine.                             *)
(*                                                                         *)
(* Floating point is modelled in fixed point.  Degrees are carried in      *)
(* units of 1/DegScale degree, radians and the values of sin, cos, sqrt    *)
(* and atan2 in units of 1/Scale, kilometres returned by haversine in      *)
(* units of 1/KmScale km, durations in whole seconds.  Every quotient is   *)
(* truncated toward zero, which is sign-symmetric like IEEE rounding.      *)
(* random.uniform(a, b) is modelled by the end points of the interval and  *)
(* the points that cut it into equal parts.                                *)
(***************************************************************************)
EXTENDS Integers, Sequences, FiniteSets, TLC

VARIABLES
    argv,           \* sys.argv[1:], a sequence of tokens
    pc,             \* where main is: "main", "radius_loop", "polygon_loop", "done", "raised"
    region_center,  \* generate_random_kml's region_center: <<lat, lon>>, <<>> for None
    radius,         \* generate_random_kml's radius (km), 0 when None
    points_count,   \* generate_random_kml's points_count
    altitude,       \* generate_random_kml's altitude
    speed,          \* generate_random_kml's speed (km/h)
    polygon,        \* the shapely Polygon: its ring of <<x, y>> vertices, <<>> for None
    random_point,   \* the candidate last drawn by the polygon loop, <<x, y>>
    points,         \* generate_random_kml's points: a sequence of <<lat, lon>>
    flytos,         \* the FlyTo elements built: [lat, lon, duration]
    printed,        \* what main and parse_polygon_from_kml printed, in order
    files_read,     \* the files opened for reading (ET.parse)
    files_written,  \* the output files written, in order
    exception,      \* the exception that left main, "none" when none did
    hav             \* the results of the haversine calls of HavSpec, in order

vars == <<argv, pc, region_center, radius, points_count, altitude, speed, polygon,
          random_point, points, flytos, printed, files_read, files_written,
          exception, hav>>

---------------------------------------------------------------------------
(* Bounds of the model and the resolution of the fixed-point arithmetic.   *)

\* The largest points count an invocation asks for.
MaxPoints == 2

\* random.uniform(a, b) draws one of the RadiusSamples + 1 (radius mode) or
\* PolygonSamples + 1 (polygon mode) points that cut [a, b] into equal parts.
RadiusSamples == 2

PolygonSamples == 3

\* Units per degree, per unit of sin/cos/radians, per kilometre.
DegScale == 10 * 10
Scale == 100 * 100
KmScale == 10 * 10

\* Program constants.
KmPerDegree == 111
EarthRadius == 6371
SecondsPerHour == 3600
InitialDuration == 5

---------------------------------------------------------------------------
(* Arithmetic.                                                             *)

Abs(x) == IF x < 0 THEN -x ELSE x

Min(a, b) == IF a <= b THEN a ELSE b

Max(a, b) == IF a >= b THEN a ELSE b

\* The element of a one-element set.  An operator that uses an argument more
\* than once binds it first, { e(v) : v \in {arg} }, so that the argument is
\* computed once.
Val(S) == CHOOSE v \in S : TRUE

\* a / b, truncated toward zero; b # 0.
Div(a, b) ==
    Val({IF (x < 0) = (y < 0) THEN Abs(x) \div Abs(y) ELSE -(Abs(x) \div Abs(y)) :
            x \in {a}, y \in {b}})

\* The product of two fixed-point values.
Mul(a, b) == Div(a * b, Scale)

Pi == 31416

HalfPi == 15708

\* math.radians of an angle in 1/DegScale degree: angle * pi / 180.
Radians(d) == Div(d * 17453, DegScale * 100)

\* sin and cos on [0, pi/4], by their Taylor polynomials in z = x^2:
\* x (1 - z/6 (1 - z/20 (1 - z/42))) and 1 - z/2 (1 - z/12 (1 - z/30)).
SinQ(x) ==
    Val({Mul(v, Scale - Div(Mul(z, Scale - Div(Mul(z, Scale - Div(z, 42)), 20)), 6)) :
            v \in {x}, z \in {Mul(x, x)}})

CosQ(x) ==
    Val({Scale - Div(Mul(z, Scale - Div(Mul(z, Scale - Div(z, 30)), 12)), 2) :
            z \in {Mul(x, x)}})

\* sin on [0, pi/2].
SinP(x) == Val({IF 2 * v <= HalfPi THEN SinQ(v) ELSE CosQ(HalfPi - v) : v \in {x}})

\* math.sin: odd, of period 2 pi.
Sin(x) ==
    Val({IF v < 0 THEN -s ELSE s :
            v \in {x},
            s \in {Val({IF r <= HalfPi THEN SinP(r)
                        ELSE IF r <= Pi THEN SinP(Pi - r)
                        ELSE IF r <= Pi + HalfPi THEN -SinP(r - Pi)
                        ELSE -SinP(2 * Pi - r) : r \in {Abs(x) % (2 * Pi)}})}})

\* math.cos: even, of period 2 pi.
Cos(x) ==
    Val({IF r <= HalfPi THEN SinP(HalfPi - r)
         ELSE IF r <= Pi THEN -SinP(r - HalfPi)
         ELSE IF r <= Pi + HalfPi THEN -SinP(Pi + HalfPi - r)
         ELSE SinP(r - Pi - HalfPi) : r \in {Abs(x) % (2 * Pi)}})

RECURSIVE IsqrtIn(_, _, _)
\* The largest k in lo..hi with k * k <= n, given lo * lo <= n < (hi + 1) * (hi + 1).
IsqrtIn(n, lo, hi) ==
    IF lo >= hi THEN lo
    ELSE Val({IF mid * mid <= n THEN IsqrtIn(n, mid, hi) ELSE IsqrtIn(n, lo, mid - 1) :
                mid \in {(lo + hi + 1) \div 2}})

\* math.sqrt of a fixed-point value in [0, 1].
Sqrt(x) == Val({IsqrtIn(n, 0, Scale) : n \in {x * Scale}})

\* atan on [0, 1]: t / (1 + 0.2809 t^2).
AtanU(t) == Val({Div(v * Scale, Scale + Mul(2809, Mul(v, v))) : v \in {t}})

\* math.atan2(y, x) for y >= 0 and x >= 0, not both zero: haversine passes two
\* square roots.
Atan2(y, x) ==
    Val({IF v <= u THEN AtanU(Div(v * Scale, u)) ELSE HalfPi - AtanU(Div(u * Scale, v)) :
            v \in {y}, u \in {x}})

---------------------------------------------------------------------------
(* haversine.                                                              *)

\* cos(phi1) * cos(phi2) with the first factor taken twice.
HavCosProductSame(phi1, phi2) == Mul(Cos(phi1), Cos(phi1))

\* math.cos(phi1) * math.cos(phi2)
HavCosProduct(phi1, phi2) == Mul(Cos(phi1), Cos(phi2))

\* a of haversine: sin(delta_phi / 2)^2 + cos(phi1) cos(phi2) sin(delta_lambda / 2)^2
HavA(phi1, phi2, delta_phi, delta_lambda) ==
    Val({Mul(sp, sp) + Mul(HavCosProduct(phi1, phi2), Mul(sl, sl)) :
            sp \in {Sin(Div(delta_phi, 2))}, sl \in {Sin(Div(delta_lambda, 2))}})

\* The great-circle distance of two points given in 1/DegScale degree, in
\* 1/KmScale km: R * c, c = 2 atan2(sqrt(a), sqrt(1 - a)).
haversine(lat1, lon1, lat2, lon2) ==
    Val({Div(EarthRadius * (2 * Atan2(Sqrt(a), Sqrt(Scale - a))), Scale \div KmScale) :
            a \in {HavA(Radians(lat1), Radians(lat2), Radians(lat2 - lat1),
                        Radians(lon2 - lon1))}})

---------------------------------------------------------------------------
(* The command line.                                                       *)

\* A command-line argument: a keyword, the text of a number, a text that is no
\* number, or the path of a file of Files.
Word(w) == [s |-> w, v |-> 0]

Num(n) == [s |-> "num", v |-> n]

Text == [s |-> "text", v |-> 0]

Path(k) == [s |-> "path", v |-> k]

\* Whether float(t) and int(t) return: they raise ValueError otherwise.
Parses(t) == t.s = "num"

AllParse(ts) == \A k \in 1..Len(ts) : Parses(ts[k])

\* A polygon source file: whether it exists, is well-formed XML, holds a
\* Placemark with a Polygon, the Polygon a coordinates element, whether every
\* coordinate is a number, and the ring of <<x, y>> (longitude, latitude)
\* vertices in 1/DegScale degree.
KmlFile(e, w, p, c, n, r) ==
    [exists |-> e, well_formed |-> w, has_polygon |-> p, has_coordinates |-> c,
     numeric |-> n, ring |-> r]

Triangle == << <<0, 0>>, <<2000, 0>>, <<0, 1000>>, <<0, 0>> >>

LShape ==
    << <<0, 0>>, <<2000, 0>>, <<2000, 1000>>, <<1000, 1000>>, <<1000, 2000>>,
       <<0, 2000>>, <<0, 0>> >>

\* Three collinear vertices: a polygon with no interior.
Degenerate == << <<0, 0>>, <<1000, 0>>, <<2000, 0>>, <<0, 0>> >>

Files ==
    << KmlFile(TRUE, TRUE, TRUE, TRUE, TRUE, Triangle),
       KmlFile(TRUE, TRUE, TRUE, TRUE, TRUE, LShape),
       KmlFile(TRUE, TRUE, TRUE, TRUE, TRUE, Degenerate),
       KmlFile(FALSE, FALSE, FALSE, FALSE, FALSE, <<>>),
       KmlFile(TRUE, FALSE, FALSE, FALSE, FALSE, <<>>),
       KmlFile(TRUE, TRUE, FALSE, FALSE, FALSE, <<>>),
       KmlFile(TRUE, TRUE, TRUE, FALSE, FALSE, <<>>),
       KmlFile(TRUE, TRUE, TRUE, TRUE, FALSE, <<>>) >>

LatTokens == {Num(60), Num(120), Text}

LonTokens == {Num(10), Text}

RadiusTokens == {Num(-1000), Num(0), Num(1000), Text}

CountTokens == {Num(n) : n \in -1..MaxPoints} \cup {Text}

AltitudeTokens == {Num(1500), Text}

SpeedTokens == {Num(-100), Num(0), Num(100), Text}

NumericArgs ==
    {<<la, lo, r, n, al, sp>> :
        la \in LatTokens, lo \in LonTokens, r \in RadiusTokens,
        n \in CountTokens, al \in AltitudeTokens, sp \in SpeedTokens}

\* The invocations: none, the three forms, and some that match no form.
Invocations ==
    {<<>>}
    \cup {<<Word("radius")>> \o a : a \in NumericArgs}
    \cup NumericArgs
    \cup {<<Word("polygon"), Path(k), n, al, sp>> :
            k \in 1..Len(Files), n \in CountTokens, al \in AltitudeTokens,
            sp \in SpeedTokens}
    \cup {<<Word("radius")>>, <<Word("polygon"), Path(1)>>,
          <<Word("radius"), Num(60), Num(10), Num(1000), Num(1), Num(1500)>>,
          <<Num(60), Num(10)>>}

---------------------------------------------------------------------------
(* parse_polygon_from_kml.                                                 *)

\* What parse_polygon_from_kml(path) does: the polygon it returns (<<>> for
\* None), what it prints, whether it opens the file, the exception it raises.
parse_polygon_from_kml(f) ==
    IF ~f.exists
    THEN [polygon |-> <<>>, printed |-> <<"file_not_found">>, read |-> FALSE,
          raises |-> "none"]
    ELSE IF ~f.well_formed
    THEN [polygon |-> <<>>, printed |-> <<>>, read |-> TRUE, raises |-> "ParseError"]
    ELSE IF ~f.has_polygon
    THEN [polygon |-> <<>>, printed |-> <<"no_polygon_found">>, read |-> TRUE,
          raises |-> "none"]
    ELSE IF ~f.has_coordinates
    THEN [polygon |-> <<>>, printed |-> <<>>, read |-> TRUE,
          raises |-> "AttributeError"]
    ELSE IF ~f.numeric
    THEN [polygon |-> <<>>, printed |-> <<>>, read |-> TRUE, raises |-> "ValueError"]
    ELSE [polygon |-> f.ring, printed |-> <<>>, read |-> TRUE, raises |-> "none"]

---------------------------------------------------------------------------
(* shapely's Polygon: bounds and contains.                                 *)

Xs(ring) == {ring[k][1] : k \in 1..Len(ring)}

Ys(ring) == {ring[k][2] : k \in 1..Len(ring)}

SetMin(S) == CHOOSE m \in S : \A x \in S : m <= x

SetMax(S) == CHOOSE m \in S : \A x \in S : m >= x

\* polygon.bounds: <<minx, miny, maxx, maxy>>
Bounds(ring) == <<SetMin(Xs(ring)), SetMin(Ys(ring)), SetMax(Xs(ring)), SetMax(Ys(ring))>>

\* Twice the signed area of the triangle a, b, p.
Cross(a, b, p) == (b[1] - a[1]) * (p[2] - a[2]) - (b[2] - a[2]) * (p[1] - a[1])

\* p lies on the segment a b.
OnSegment(a, b, p) ==
    /\ Cross(a, b, p) = 0
    /\ Min(a[1], b[1]) <= p[1] /\ p[1] <= Max(a[1], b[1])
    /\ Min(a[2], b[2]) <= p[2] /\ p[2] <= Max(a[2], b[2])

\* The horizontal ray from p to the right crosses the edge a b.
RayCrosses(a, b, p) ==
    /\ (a[2] > p[2]) # (b[2] > p[2])
    /\ IF b[2] > a[2] THEN Cross(a, b, p) > 0 ELSE Cross(a, b, p) < 0

Edges(ring) == 1..(Len(ring) - 1)

\* polygon.contains(Point(p)): p is in the interior, not on the boundary.
Contains(ring, p) ==
    /\ \A k \in Edges(ring) : ~OnSegment(ring[k], ring[k + 1], p)
    /\ Cardinality({k \in Edges(ring) : RayCrosses(ring[k], ring[k + 1], p)}) % 2 = 1

---------------------------------------------------------------------------
(* generate_random_kml.                                                    *)

\* The values random.uniform(a, b) is drawn from: a + (b - a) * k / n.
Uniform(a, b, n) == {a + Div((b - a) * k, n) : k \in 0..n}

\* A radius-mode point whose latitude offset is divided by the longitude's
\* 111 |cos(lat_center)| as well.
RadiusPointBothByCos(center, u_lat, u_lon) ==
    <<center[1] + Div(u_lat * DegScale * Scale,
                      KmPerDegree * Abs(Cos(Radians(center[1])))),
      center[2] + Div(u_lon * DegScale * Scale,
                      KmPerDegree * Abs(Cos(Radians(center[1]))))>>

\* The point the radius loop appends for the offsets u_lat and u_lon (km)
\* drawn: <<rand_lat, rand_lon>>.
RadiusPoint(center, u_lat, u_lon) ==
    <<center[1] + Div(u_lat * DegScale, KmPerDegree),
      center[2] + Div(u_lon * DegScale * Scale,
                      KmPerDegree * Abs(Cos(Radians(center[1]))))>>

\* The candidates of the polygon loop: Point(uniform(minx, maxx), uniform(miny, maxy)).
Candidates(ring) ==
    LET b == Bounds(ring)
    IN  Uniform(b[1], b[3], PolygonSamples) \X Uniform(b[2], b[4], PolygonSamples)

\* The polygon loop's body without the containment test.
PolygonBodyNoTest(pts, ring, rp) == Append(pts, <<rp[2], rp[1]>>)

\* The polygon loop's body: points after the candidate rp was drawn.
PolygonBody(pts, ring, rp) ==
    IF Contains(ring, rp) THEN Append(pts, <<rp[2], rp[1]>>) ELSE pts

\* A loop guard that runs the loop once more.
LoopContinuesOnceMore(pts, count) == Len(pts) <= count

\* The guard of both sampling loops: range(points_count), and
\* while len(points) < points_count.
LoopContinues(pts, count) == Len(pts) < count

\* distance / speed * 3600, in seconds; spd # 0.
Duration(distance, spd) == Div(Div(distance, spd) * SecondsPerHour, KmScale)

\* A timing loop without the first segment's special case: segment 1 is
\* timed from points[-1], Python's last point.
FlyToDurationNoFirst(pts, i, spd) ==
    LET prev == IF i = 1 THEN pts[Len(pts)] ELSE pts[i - 1]
    IN  IF spd = 0
        THEN [raises |-> TRUE, value |-> 0]
        ELSE [raises |-> FALSE,
              value |-> Duration(haversine(prev[1], prev[2], pts[i][1], pts[i][2]), spd)]

\* The duration of segment i (from 1) of the timing loop, or that computing
\* it raises ZeroDivisionError.
FlyToDuration(pts, i, spd) ==
    IF i = 1
    THEN [raises |-> FALSE, value |-> InitialDuration]
    ELSE IF spd = 0
    THEN [raises |-> TRUE, value |-> 0]
    ELSE [raises |-> FALSE,
          value |-> Duration(haversine(pts[i - 1][1], pts[i - 1][2],
                                       pts[i][1], pts[i][2]), spd)]

\* A timing loop over range(len(points) - 1): the last point gets no segment.
TimingDropsLast(pts, spd) ==
    LET m == Max(Len(pts) - 1, 0)
        bad == {i \in 1..m : FlyToDuration(pts, i, spd).raises}
        n == IF bad = {} THEN m ELSE SetMin(bad) - 1
    IN  [flytos |-> [i \in 1..n |-> [lat |-> pts[i][1], lon |-> pts[i][2],
                                     duration |-> FlyToDuration(pts, i, spd).value]],
         raises |-> bad # {}]

\* The timing loop: the FlyTo elements built, and whether the loop raised
\* ZeroDivisionError after them.
Timing(pts, spd) ==
    LET bad == {i \in 1..Len(pts) : FlyToDuration(pts, i, spd).raises}
        n == IF bad = {} THEN Len(pts) ELSE SetMin(bad) - 1
    IN  [flytos |-> [i \in 1..n |-> [lat |-> pts[i][1], lon |-> pts[i][2],
                                     duration |-> FlyToDuration(pts, i, spd).value]],
         raises |-> bad # {}]

---------------------------------------------------------------------------
(* main.                                                                   *)

Init ==
    /\ argv \in Invocations
    /\ pc = "main"
    /\ region_center = <<>>
    /\ radius = 0
    /\ points_count = 0
    /\ altitude = 0
    /\ speed = 0
    /\ polygon = <<>>
    /\ random_point = <<>>
    /\ points = <<>>
    /\ flytos = <<>>
    /\ printed = <<>>
    /\ files_read = {}
    /\ files_written = <<>>
    /\ exception = "none"
    /\ hav = <<>>

\* len(sys.argv): argv holds sys.argv[1:].
ArgCount == Len(argv) + 1

\* sys.argv[1].lower()
Option == argv[1].s

Locals == <<region_center, radius, points_count, altitude, speed, polygon>>

Tour == <<random_point, points, flytos>>

\* A ValueError that no except clause catches.
ValueErrorUncaught(msg) == [pc |-> "raised", printed |-> <<>>, exception |-> "ValueError"]

\* except ValueError: print(msg)
ValueErrorCaught(msg) == [pc |-> "done", printed |-> <<msg>>, exception |-> "none"]

\* main ends in the state the handler h leaves.
Handled(h) ==
    /\ pc' = h.pc
    /\ printed' = printed \o h.printed
    /\ exception' = h.exception

\* if len(sys.argv) < 2: print the usage.
MainUsage ==
    /\ pc = "main"
    /\ ArgCount < 2
    /\ pc' = "done"
    /\ printed' = Append(printed, "usage")
    /\ UNCHANGED <<argv, Locals, Tour, files_read, files_written, exception, hav>>

\* The try block of the two radius forms up to the call of generate_random_kml;
\* a holds the six numeric arguments.
RadiusTry(a) ==
    IF AllParse(a)
    THEN /\ region_center' = <<a[1].v * DegScale, a[2].v * DegScale>>
         /\ radius' = a[3].v
         /\ points_count' = a[4].v
         /\ altitude' = a[5].v
         /\ speed' = a[6].v
         /\ pc' = "radius_loop"
         /\ UNCHANGED <<polygon, printed, exception>>
    ELSE /\ Handled(ValueErrorCaught("invalid_numerical_input"))
         /\ UNCHANGED Locals

\* option == 'radius' and len(sys.argv) == 8
MainRadius ==
    /\ pc = "main"
    /\ ArgCount >= 2
    /\ Option = "radius" /\ ArgCount = 8
    /\ RadiusTry(SubSeq(argv, 2, 7))
    /\ UNCHANGED <<argv, Tour, files_read, files_written, hav>>

\* option == 'polygon' and len(sys.argv) == 6
MainPolygon ==
    /\ pc = "main"
    /\ ArgCount >= 2
    /\ ~(Option = "radius" /\ ArgCount = 8)
    /\ Option = "polygon" /\ ArgCount = 6
    /\ IF ~AllParse(SubSeq(argv, 3, 5))
       THEN /\ Handled(ValueErrorCaught("invalid_input"))
            /\ UNCHANGED <<Locals, files_read>>
       ELSE LET r == parse_polygon_from_kml(Files[argv[2].v])
            IN  /\ points_count' = argv[3].v
                /\ altitude' = argv[4].v
                /\ speed' = argv[5].v
                /\ files_read' = IF r.read THEN files_read \cup {argv[2].v} ELSE files_read
                /\ polygon' = r.polygon
                /\ UNCHANGED <<region_center, radius>>
                /\ IF r.raises = "ValueError"
                   THEN Handled(ValueErrorCaught("invalid_input"))
                   ELSE IF r.raises # "none"
                   THEN Handled([pc |-> "raised", printed |-> r.printed,
                                 exception |-> r.raises])
                   ELSE IF r.polygon = <<>>
                   THEN Handled([pc |-> "done", printed |-> r.printed,
                                 exception |-> "none"])
                   ELSE Handled([pc |-> "polygon_loop", printed |-> r.printed,
                                 exception |-> "none"])
    /\ UNCHANGED <<argv, Tour, files_written, hav>>

\* len(sys.argv) == 7: the 'radius' keyword left out
MainKeyless ==
    /\ pc = "main"
    /\ ArgCount >= 2
    /\ ~(Option = "radius" /\ ArgCount = 8)
    /\ ~(Option = "polygon" /\ ArgCount = 6)
    /\ ArgCount = 7
    /\ RadiusTry(argv)
    /\ UNCHANGED <<argv, Tour, files_read, files_written, hav>>

\* else: print the two error lines.
MainInvalid ==
    /\ pc = "main"
    /\ ArgCount >= 2
    /\ ~(Option = "radius" /\ ArgCount = 8)
    /\ ~(Option = "polygon" /\ ArgCount = 6)
    /\ ArgCount # 7
    /\ pc' = "done"
    /\ printed' = printed \o <<"invalid_arguments", "run_without_arguments">>
    /\ UNCHANGED <<argv, Locals, Tour, files_read, files_written, exception, hav>>

\* One iteration of the radius loop: two draws and an append.
RadiusDraw ==
    /\ pc = "radius_loop"
    /\ LoopContinues(points, points_count)
    /\ \E u_lat \in Uniform(-radius, radius, RadiusSamples),
          u_lon \in Uniform(-radius, radius, RadiusSamples) :
            points' = Append(points, RadiusPoint(region_center, u_lat, u_lon))
    /\ UNCHANGED <<argv, pc, Locals, random_point, flytos, printed, files_read,
                   files_written, exception, hav>>

\* One iteration of the polygon loop with the candidate c drawn.
PolygonDraw(c) ==
    /\ pc = "polygon_loop"
    /\ LoopContinues(points, points_count)
    /\ random_point' = c
    /\ points' = PolygonBody(points, polygon, c)
    /\ UNCHANGED <<argv, pc, Locals, flytos, printed, files_read, files_written,
                   exception, hav>>

\* An iteration of the polygon loop that draws some candidate of the bounding box.
PolygonIteration ==
    /\ pc = "polygon_loop"
    /\ \E c \in Candidates(polygon) : PolygonDraw(c)

\* An iteration of the polygon loop whose candidate the polygon contains.
PolygonAccept ==
    /\ pc = "polygon_loop"
    /\ \E c \in Candidates(polygon) : PolygonDraw(c) /\ Contains(polygon, c)

\* The sampling loop is left: the timing loop runs, generate_random_kml returns
\* and main writes the file and prints where, or ZeroDivisionError leaves main.
Generate(loop, file, msg) ==
    /\ pc = loop
    /\ ~LoopContinues(points, points_count)
    /\ LET t == Timing(points, speed)
       IN  /\ flytos' = t.flytos
           /\ IF t.raises
              THEN /\ pc' = "raised"
                   /\ exception' = "ZeroDivisionError"
                   /\ UNCHANGED <<printed, files_written>>
              ELSE /\ pc' = "done"
                   /\ files_written' = Append(files_written, file)
                   /\ printed' = Append(printed, msg)
                   /\ UNCHANGED exception
    /\ UNCHANGED <<argv, Locals, random_point, points, files_read, hav>>

\* Lines 139-143 and 173-177.
GenerateRadius ==
    Generate("radius_loop",
             IF ArgCount = 8 THEN "Flythrough_radius_flyover" ELSE "flythrough_radius",
             "saved_radius")

\* Lines 155-159.
GeneratePolygon == Generate("polygon_loop", "flythrough_polygon", "saved_polygon")

Next ==
    \/ MainUsage
    \/ MainRadius
    \/ MainPolygon
    \/ MainKeyless
    \/ MainInvalid
    \/ RadiusDraw
    \/ PolygonIteration
    \/ GenerateRadius
    \/ GeneratePolygon

Spec == Init /\ [][Next]_vars

\* The invocations of the polygon form, at one speed: the polygon loop does
\* not read the speed.
PolygonInit ==
    /\ Init
    /\ Len(argv) = 5 /\ argv[1].s = "polygon"
    /\ argv[5] \in {Num(100), Text}

PolygonNext ==
    \/ MainPolygon
    \/ PolygonIteration
    \/ GeneratePolygon

\* The polygon form under fair sampling: an interior candidate is drawn again
\* and again while the loop runs, and the interpreter leaves a loop whose guard
\* is false.
FairSpec ==
    /\ PolygonInit
    /\ [][PolygonNext]_vars
    /\ WF_vars(PolygonAccept)
    /\ WF_vars(GeneratePolygon)

---------------------------------------------------------------------------
(* haversine on its own: two points are drawn and haversine is called on   *)
(* (A, B), (B, A), (A, A) and (B, B).                                      *)

HavPoints == {<<lat, lon>> : lat \in {-6000, 0, 3000, 6000}, lon \in {0, 500, 2000, 17000}}

HavInit ==
    /\ argv = <<>>
    /\ pc = "haversine"
    /\ region_center = <<>>
    /\ radius = 0
    /\ points_count = 0
    /\ altitude = 0
    /\ speed = 0
    /\ polygon = <<>>
    /\ random_point = <<>>
    /\ points \in {<<A, B>> : A \in HavPoints, B \in HavPoints}
    /\ flytos = <<>>
    /\ printed = <<>>
    /\ files_read = {}
    /\ files_written = <<>>
    /\ exception = "none"
    /\ hav = <<>>

HavArgs == << <<1, 2>>, <<2, 1>>, <<1, 1>>, <<2, 2>> >>

HavCall ==
    /\ pc = "haversine"
    /\ Len(hav) < Len(HavArgs)
    /\ LET A == points[HavArgs[Len(hav) + 1][1]]
           B == points[HavArgs[Len(hav) + 1][2]]
       IN  hav' = Append(hav, haversine(A[1], A[2], B[1], B[2]))
    /\ UNCHANGED <<argv, pc, Locals, random_point, points, flytos, printed,
                   files_read, files_written, exception>>

HavNext == HavCall

HavSpec == HavInit /\ [][HavNext]_vars

---------------------------------------------------------------------------
(* The claims.                                                             *)

InRadiusMode == region_center # <<>>

InPolygonMode == polygon # <<>>

RadiusForm == Len(argv) = 7 /\ argv[1].s = "radius"

PolygonForm == Len(argv) = 5 /\ argv[1].s = "polygon"

KeylessForm == Len(argv) = 6

\* The numeric arguments of the invocation, when it has one of the three forms.
NumericTokens ==
    IF RadiusForm THEN SubSeq(argv, 2, 7)
    ELSE IF PolygonForm THEN SubSeq(argv, 3, 5)
    ELSE IF KeylessForm THEN argv
    ELSE <<>>

Returned == pc = "done" /\ files_written # <<>>

\* C1: in polygon mode every point appended to the tour, and every segment
\* emitted, lies strictly inside the polygon (x = longitude, y = latitude): no
\* candidate on the boundary or outside the polygon is emitted.
C1_PolygonPointsContained ==
    InPolygonMode =>
        /\ \A i \in 1..Len(points) : Contains(polygon, <<points[i][2], points[i][1]>>)
        /\ \A i \in 1..Len(flytos) : Contains(polygon, <<flytos[i].lon, flytos[i].lat>>)

\* The polygon loop holds one accepted point and has just rejected a candidate
\* in the notch of the L-shaped polygon: in its bounding box, off its boundary
\* and outside it.
C1_Witness ==
    /\ InPolygonMode /\ polygon = LShape
    /\ Len(points) = 1 /\ points_count = 2
    /\ random_point[1] > 1000 /\ random_point[2] > 1000

C3_FirstDurationFixed == Len(flytos) >= 1 => flytos[1].duration = 5

\* A written tour of two distinct points whose second segment takes longer.
C3_Witness ==
    /\ Returned /\ Len(flytos) = 2
    /\ flytos[1].duration = 5 /\ flytos[2].duration > 5

\* C4: for every speed the command line accepts, every segment after the
\* first has a duration, which is non-negative and equals
\* distance(previous point, this point) / speed * 3600.
C4_LaterDurations ==
    (pc \in {"done", "raised"} /\ Len(points) >= 2) =>
        /\ Len(flytos) = Len(points)
        /\ \A i \in 2..Len(flytos) :
            /\ flytos[i].duration >= 0
            /\ speed # 0 =>
                flytos[i].duration =
                    Duration(haversine(points[i - 1][1], points[i - 1][2],
                                       points[i][1], points[i][2]), speed)

\* C5: when a numeric argument of one of the three forms does not parse, main
\* prints an error message, no exception leaves main, no output file is
\* written and no polygon file is read.
C5_InvalidNumberReported ==
    (pc # "main" /\ NumericTokens # <<>> /\ ~AllParse(NumericTokens)) =>
        /\ pc = "done"
        /\ exception = "none"
        /\ printed \in {<<"invalid_numerical_input">>, <<"invalid_input">>}
        /\ files_written = <<>>
        /\ files_read = {}

\* The polygon form with a speed that is no number and a polygon file that exists.
C5_Witness ==
    /\ PolygonForm /\ pc = "done"
    /\ ~Parses(argv[5]) /\ Files[argv[2].v].exists
    /\ printed = <<"invalid_input">>

\* C6: in polygon mode, when the polygon file is missing or malformed, the
\* problem is reported, no exception leaves main and no output file is written.
C6_PolygonSourceReported ==
    (/\ pc # "main" /\ PolygonForm /\ AllParse(NumericTokens)
     /\ LET f == Files[argv[2].v]
        IN  ~(f.exists /\ f.well_formed /\ f.has_polygon /\ f.has_coordinates
              /\ f.numeric)) =>
        /\ pc = "done"
        /\ exception = "none"
        /\ Len(printed) >= 1
        /\ files_written = <<>>

\* Some candidate of the bounding box is inside the polygon.
HasInterior(ring) == \E c \in Candidates(ring) : Contains(ring, c)

\* C7: under fair sampling the polygon loop ends if points_count <= 0 or the
\* polygon contains a candidate; no step leaves it if points_count >= 1 and the
\* polygon contains none (the polygon and the count never change, so it never
\* ends); and it is left exactly with max(points_count, 0) points.
C7_PolygonLoopTermination ==
    /\ (pc = "polygon_loop" /\ (points_count <= 0 \/ HasInterior(polygon)))
            ~> (pc # "polygon_loop")
    /\ [][(pc = "polygon_loop" /\ points_count >= 1 /\ ~HasInterior(polygon))
            => pc' = "polygon_loop"]_vars
    /\ [][(pc = "polygon_loop" /\ pc' # "polygon_loop")
            => (Len(points) >= points_count /\ Len(points) = Max(points_count, 0))]_vars

\* The polygon loop was left with the two points asked for, and they differ.
C7_Witness ==
    /\ InPolygonMode /\ pc = "done"
    /\ points_count = 2 /\ Len(points) = 2
    /\ points[1] # points[2]

\* C8: haversine(A, A) = 0 and haversine(A, B) = haversine(B, A).
C8_HaversineZeroSymmetric ==
    (pc = "haversine" /\ Len(hav) = Len(HavArgs)) =>
        /\ hav[1] = hav[2]
        /\ hav[3] = 0
        /\ hav[4] = 0

\* The four calls were made on two points of different latitude and longitude.
C8_Witness ==
    /\ pc = "haversine" /\ Len(hav) = Len(HavArgs)
    /\ points[1][1] # points[2][1] /\ points[1][2] # points[2][2]
    /\ hav[1] > 0

\* C9: when generate_random_kml returns, the tour holds max(points_count, 0)
\* segments, segment i at point i and, for i >= 2, timed from point i - 1 to
\* point i; while a loop samples, the points number at most points_count.
C9_TourMatchesPoints ==
    /\ Returned =>
        /\ Len(flytos) = Max(points_count, 0)
        /\ Len(points) = Len(flytos)
        /\ \A i \in 1..Len(flytos) :
            /\ flytos[i].lat = points[i][1]
            /\ flytos[i].lon = points[i][2]
            /\ i >= 2 =>
                flytos[i].duration =
                    Duration(haversine(points[i - 1][1], points[i - 1][2],
                                       points[i][1], points[i][2]), speed)
    /\ (pc \in {"radius_loop", "polygon_loop"} /\ Len(points) > 0) =>
        Len(points) <= points_count

\* A radius-mode tour of two distinct points was written.
C9_Witness ==
    /\ Returned /\ InRadiusMode
    /\ Len(flytos) = 2 /\ points[1] # points[2]
    /\ flytos[2].duration # 0

\* C10: an invocation of a radius form whose arguments all parse ends without
\* an exception: with one output file and the saved-to message, or with an
\* error message and no file.
C10_NumericInvocationEnds ==
    (/\ pc \in {"done", "raised"} /\ (RadiusForm \/ KeylessForm)
     /\ AllParse(NumericTokens)) =>
        /\ exception = "none"
        /\ \/ Len(files_written) = 1 /\ printed = <<"saved_radius">>
           \/ files_written = <<>> /\ Len(printed) >= 1

====
